---- MODULE Spec2Model ----
(***************************************************************************)
(* A model of personal_productivity.py: the task scorer and ranker         *)
(* (TaskPrioritizationAgent), the session log and focus estimator          *)
(* (FocusDistractionsAgent) and the facade that owns the task list and     *)
(* the snapshot file (ProductivityOptimizer).                              *)
(*                                                                         *)
(* Representation.                                                         *)
(*  - A datetime is an integer number of hours since midnight of day 0     *)
(*    (datetimes are restricted to whole hours): datetime.hour is t % 24   *)
(*    and (a - b).days is (a - b) \div 24, the floor that timedelta        *)
(*    normalisation computes.                                              *)
(*  - An Optional value is None (<<>>) or Some(v) (<<v>>).                 *)
(*  - An enum member is its member name; Priority_value and                *)
(*    TaskStatus_value give the member's value.                            *)
(*  - estimated_hours and actual_hours are whole hours.                    *)
(*  - A Task's title, description and tags, and the resource and           *)
(*    automation agents that read only those, are left out.                *)
(***************************************************************************)
EXTENDS Integers, Sequences, FiniteSets, TLC

VARIABLES
    tasks,                  \* ProductivityOptimizer.tasks
    current_energy,         \* ProductivityOptimizer.current_energy
    productivity_history,   \* FocusDistractionsAgent.productivity_history
    focus_patterns,         \* FocusDistractionsAgent.focus_patterns (hour -> scores)
    distraction_triggers,   \* FocusDistractionsAgent.distraction_triggers (hour -> count)
    file,                   \* user_data/<user_id>.json: None, or Some(document)
    now,                    \* the wall clock datetime.datetime.now() reads
    call,                   \* the last call made: its name and arguments
    ret,                    \* what the last call returned: None, or Some(value)
    raised                  \* the exception the last call let propagate, or "none"

vars == <<tasks, current_energy, productivity_history, focus_patterns,
          distraction_triggers, file, now, call, ret, raised>>

agent_vars == <<productivity_history, focus_patterns, distraction_triggers>>

None == <<>>
Some(v) == <<v>>

Max(a, b) == IF a >= b THEN a ELSE b
Abs(a) == IF a >= 0 THEN a ELSE -a

(***************************************************************************)
(* Enums and datetimes                                                     *)
(***************************************************************************)
Priority == {"LOW", "MEDIUM", "HIGH", "URGENT"}

Priority_value(p) ==
    CASE p = "LOW" -> 1 [] p = "MEDIUM" -> 2 [] p = "HIGH" -> 3 [] p = "URGENT" -> 4

TaskStatus == {"PENDING", "IN_PROGRESS", "COMPLETED", "CANCELLED"}

TaskStatus_value(s) ==
    CASE s = "PENDING" -> "pending" [] s = "IN_PROGRESS" -> "in_progress"
      [] s = "COMPLETED" -> "completed" [] s = "CANCELLED" -> "cancelled"

\* datetime.hour
hour_of(t) == t % 24

\* Variant of timedelta_days with the operands exchanged
timedelta_days_reversed(a, b) == (b - a) \div 24

\* (a - b).days: timedelta keeps 0 <= seconds < 86400, so days is the floor
timedelta_days(a, b) == (a - b) \div 24

(***************************************************************************)
(* TaskPrioritizationAgent                                                 *)
(***************************************************************************)
\* Deadline urgency (0-40 points)
deadline_points(task, current_time) ==
    IF task.deadline # None
    THEN LET days_until_deadline == timedelta_days(task.deadline[1], current_time)
         IN  IF days_until_deadline <= 0 THEN 40
             ELSE IF days_until_deadline <= 1 THEN 35
             ELSE IF days_until_deadline <= 3 THEN 25
             ELSE IF days_until_deadline <= 7 THEN 15
             ELSE 5
    ELSE 0

\* Priority level (0-25 points): priority_scores.get(task.priority, 0)
priority_points(task) ==
    CASE task.priority = "URGENT" -> 25
      [] task.priority = "HIGH" -> 20
      [] task.priority = "MEDIUM" -> 10
      [] task.priority = "LOW" -> 5
      [] OTHER -> 0

\* Energy alignment (0-20 points)
energy_points(task, energy) ==
    LET energy_diff == Abs(energy - task.energy_level_required)
    IN  Max(0, 20 - (energy_diff * 2))

\* Variant of effort_points whose work hours end before 17
effort_points_until_16(task, current_time) ==
    LET hour == hour_of(current_time)
    IN  IF hour >= 9 /\ hour < 17
        THEN IF task.estimated_hours <= 2 THEN 15
             ELSE IF task.estimated_hours <= 4 THEN 10
             ELSE 5
        ELSE 0

\* Effort vs available time (0-15 points)
effort_points(task, current_time) ==
    LET hour == hour_of(current_time)
    IN  IF hour >= 9 /\ hour <= 17
        THEN IF task.estimated_hours <= 2 THEN 15
             ELSE IF task.estimated_hours <= 4 THEN 10
             ELSE 5
        ELSE 0

calculate_task_score(task, energy, current_time) ==
    deadline_points(task, current_time) + priority_points(task)
      + energy_points(task, energy) + effort_points(task, current_time)

\* Variant of sort_insert that is not stable: a pair goes ahead of the
\* pairs of equal score already placed
sort_insert_unstable(sorted, pair) ==
    LET ahead == {i \in 1..Len(sorted) : sorted[i][2] > pair[2]}
        k == Cardinality(ahead)
    IN  SubSeq(sorted, 1, k) \o <<pair>> \o SubSeq(sorted, k + 1, Len(sorted))

\* list.sort(key=score, reverse=True) on the (task, score) pairs: a stable
\* sort, so a pair goes behind every pair already placed whose score is not
\* smaller than its own.
sort_insert(sorted, pair) ==
    LET ahead == {i \in 1..Len(sorted) : sorted[i][2] >= pair[2]}
        k == Cardinality(ahead)
    IN  SubSeq(sorted, 1, k) \o <<pair>> \o SubSeq(sorted, k + 1, Len(sorted))

RECURSIVE sort_by_score_desc(_)
sort_by_score_desc(pairs) ==
    IF pairs = <<>> THEN <<>>
    ELSE sort_insert(sort_by_score_desc(SubSeq(pairs, 1, Len(pairs) - 1)),
                     pairs[Len(pairs)])

prioritize_tasks(task_list, energy, current_time) ==
    LET pending == SelectSeq(task_list, LAMBDA t : t.status = "PENDING")
        task_scores == [i \in 1..Len(pending) |->
                          <<pending[i],
                            calculate_task_score(pending[i], energy, current_time)>>]
        ordered == sort_by_score_desc(task_scores)
    IN  [i \in 1..Len(ordered) |-> ordered[i][1]]

(***************************************************************************)
(* FocusDistractionsAgent                                                  *)
(***************************************************************************)
\* dict.get(key, default) on a mapping held as a function
dict_get(d, key, default) == IF key \in DOMAIN d THEN d[key] ELSE default

\* d[key] = value, creating the key when it is missing
dict_set(d, key, value) ==
    [k \in DOMAIN d \cup {key} |-> IF k = key THEN value ELSE d[k]]

\* A ProductivitySession; tasks_completed, end_time and tools_used are
\* stored and never read.
ProductivitySession(start_time, focus_score, energy_level, distractions_count) ==
    [start_time |-> start_time, focus_score |-> focus_score,
     energy_level |-> energy_level, distractions_count |-> distractions_count]

log_session(session) ==
    LET hour == hour_of(session.start_time)
    IN  /\ productivity_history' = Append(productivity_history, session)
        /\ focus_patterns' =
             dict_set(focus_patterns, hour,
                      Append(dict_get(focus_patterns, hour, <<>>),
                             session.focus_score))
        /\ distraction_triggers' =
             IF session.distractions_count > 3
             THEN dict_set(distraction_triggers, hour,
                           dict_get(distraction_triggers, hour, 0) + 1)
             ELSE distraction_triggers

RECURSIVE seq_sum(_)
seq_sum(s) == IF s = <<>> THEN 0 ELSE s[1] + seq_sum(Tail(s))

\* Variant of frac_gt that also holds of equal fractions
frac_ge(a, b) == a[1] * b[2] >= b[1] * a[2]

\* Averages and window scores are exact fractions <<numerator, denominator>>
\* with a positive denominator.
frac_gt(a, b) == a[1] * b[2] > b[1] * a[2]

\* sum(scores) / len(scores) for every hour that has scores
avg_focus_by_hour(patterns) ==
    [h \in DOMAIN patterns |-> <<seq_sum(patterns[h]), Len(patterns[h])>>]

\* (avg.get(start_hour, 5) + avg.get(start_hour + 1, 5)) / 2
window_score(avg, start_hour) ==
    LET a == dict_get(avg, start_hour, <<5, 1>>)
        b == dict_get(avg, start_hour + 1, <<5, 1>>)
    IN  <<a[1] * b[2] + b[1] * a[2], 2 * a[2] * b[2]>>

\* The loop over range(6, 20), from start_hour on, with the best so far
RECURSIVE best_window_from(_, _, _)
best_window_from(avg, start_hour, best) ==
    IF start_hour >= 20 THEN best
    ELSE LET end_hour == start_hour + 2
             score == window_score(avg, start_hour)
             next_best ==
                 IF end_hour <= 22 /\ frac_gt(score, best.best_score)
                 THEN [best_score |-> score,
                       best_window |-> <<start_hour, end_hour>>]
                 ELSE best
         IN  best_window_from(avg, start_hour + 1, next_best)

\* Variant of get_optimal_focus_time without the early return
get_optimal_focus_time_no_default(patterns) ==
    best_window_from(avg_focus_by_hour(patterns), 6,
                     [best_score |-> <<0, 1>>,
                      best_window |-> <<9, 11>>]).best_window

get_optimal_focus_time(patterns) ==
    IF DOMAIN patterns = {} THEN <<9, 11>>
    ELSE best_window_from(avg_focus_by_hour(patterns), 6,
                          [best_score |-> <<0, 1>>,
                           best_window |-> <<9, 11>>]).best_window

\* Variant of suggest_break_time whose threshold is one lower
suggest_break_time_from_3(triggers, current_time) ==
    dict_get(triggers, hour_of(current_time), 0) >= 3

suggest_break_time(triggers, current_time) ==
    dict_get(triggers, hour_of(current_time), 0) > 3

\* The keys of distraction_triggers in insertion order: the hours of the
\* high-distraction sessions, each at its first occurrence in the history.
RECURSIVE trigger_keys(_)
trigger_keys(history) ==
    IF history = <<>> THEN <<>>
    ELSE LET before == trigger_keys(SubSeq(history, 1, Len(history) - 1))
             last == history[Len(history)]
             hour == hour_of(last.start_time)
         IN  IF /\ last.distractions_count > 3
                /\ \A i \in 1..Len(before) : before[i] # hour
             THEN Append(before, hour)
             ELSE before

get_distraction_mitigation_tips(triggers, history) ==
    LET tips == <<"Consider using website blockers during focus sessions",
                  "Turn off non-essential notifications",
                  "Use noise-cancelling headphones or white noise",
                  "Keep your phone in another room or in airplane mode",
                  "Prepare everything you need before starting deep work">>
        high_distraction_hours ==
            SelectSeq(trigger_keys(history), LAMBDA h : triggers[h] > 2)
    IN  IF high_distraction_hours # <<>>
        THEN Append(tips, <<"Your most distracting hours are ",
                            high_distraction_hours,
                            ". Consider scheduling lighter tasks during these times.">>)
        ELSE tips

(***************************************************************************)
(* ProductivityOptimizer                                                   *)
(***************************************************************************)
\* Task(...) as add_task builds it
Task(id, priority, deadline, estimated_hours, energy_level_required, created_at) ==
    [id |-> id, priority |-> priority, deadline |-> deadline,
     estimated_hours |-> estimated_hours,
     energy_level_required |-> energy_level_required,
     status |-> "PENDING", created_at |-> created_at,
     completed_at |-> None, actual_hours |-> None]

\* __init__ before _load_user_data: empty task list, energy 7, fresh agents
init_fields ==
    /\ tasks = <<>>
    /\ current_energy = 7
    /\ productivity_history = <<>>
    /\ focus_patterns = <<>>
    /\ distraction_triggers = <<>>

\* Variant of add_task that numbers a task by the count before it
add_task_numbered_from_0(priority, deadline, estimated_hours, energy_level_required) ==
    LET task == Task("task_" \o ToString(Len(tasks)), priority, deadline,
                     estimated_hours, energy_level_required, now)
    IN  /\ raised = "none"
        /\ tasks' = Append(tasks, task)
        /\ call' = [op |-> "add_task", priority |-> priority,
                    deadline |-> deadline, estimated_hours |-> estimated_hours,
                    energy_level_required |-> energy_level_required]
        /\ ret' = Some(task)
        /\ UNCHANGED <<current_energy, agent_vars, file, now, raised>>

add_task(priority, deadline, estimated_hours, energy_level_required) ==
    LET task == Task("task_" \o ToString(Len(tasks) + 1), priority, deadline,
                     estimated_hours, energy_level_required, now)
    IN  /\ raised = "none"
        /\ tasks' = Append(tasks, task)
        /\ call' = [op |-> "add_task", priority |-> priority,
                    deadline |-> deadline, estimated_hours |-> estimated_hours,
                    energy_level_required |-> energy_level_required]
        /\ ret' = Some(task)
        /\ UNCHANGED <<current_energy, agent_vars, file, now, raised>>

\* prioritized_tasks[:n], distraction_tips[:n]
\* Variant of take that cuts one element later
take_one_more(s, n) == SubSeq(s, 1, IF Len(s) < n + 1 THEN Len(s) ELSE n + 1)

take(s, n) == SubSeq(s, 1, IF Len(s) < n THEN Len(s) ELSE n)

\* str(datetime) and datetime.isoformat(): the date, a separator, the time
datetime_isoformat(t, sep) == [date |-> t \div 24, sep |-> sep, hour |-> t % 24]

\* datetime.fromisoformat accepts either separator
datetime_fromisoformat(s) == s.date * 24 + s.hour

get_daily_recommendations ==
    LET current_time == now
        prioritized_tasks == prioritize_tasks(tasks, current_energy, current_time)
        optimal_focus_time == get_optimal_focus_time(focus_patterns)
        should_take_break == suggest_break_time(distraction_triggers, current_time)
        distraction_tips ==
            get_distraction_mitigation_tips(distraction_triggers,
                                            productivity_history)
    IN  /\ raised = "none"
        /\ call' = [op |-> "get_daily_recommendations"]
        /\ ret' = Some(
             [timestamp |-> datetime_isoformat(current_time, "T"),
              prioritized_tasks |-> take(prioritized_tasks, 5),
              focus_recommendations |->
                [optimal_focus_time |->
                   ToString(optimal_focus_time[1]) \o ":00 - "
                     \o ToString(optimal_focus_time[2]) \o ":00",
                 should_take_break |-> should_take_break,
                 distraction_tips |-> take(distraction_tips, 3)]])
        /\ UNCHANGED <<tasks, current_energy, agent_vars, file, now, raised>>

\* "if actual_hours:" is false for None and for 0
truthy(actual_hours) == actual_hours # None /\ actual_hours[1] # 0

\* Variant of completed that leaves completed_at as it is
completed_without_timestamp(task, actual_hours) ==
    [task EXCEPT !.status = "COMPLETED",
                 !.actual_hours = IF truthy(actual_hours) THEN actual_hours ELSE @]

\* The task complete_task's loop changes: the first one whose id matches
completed(task, actual_hours) ==
    [task EXCEPT !.status = "COMPLETED",
                 !.completed_at = Some(now),
                 !.actual_hours = IF truthy(actual_hours) THEN actual_hours ELSE @]

\* Variant of complete_task whose loop does not compare ids: it completes
\* the first task of the list
complete_task_any_id(task_id, actual_hours) ==
    /\ raised = "none"
    /\ tasks' =
         IF tasks = <<>> THEN tasks
         ELSE [tasks EXCEPT ![1] =
                 [@ EXCEPT !.status = "COMPLETED",
                           !.completed_at = Some(now),
                           !.actual_hours =
                             IF truthy(actual_hours) THEN actual_hours ELSE @]]
    /\ call' = [op |-> "complete_task", task_id |-> task_id,
                actual_hours |-> actual_hours]
    /\ ret' = None
    /\ UNCHANGED <<current_energy, agent_vars, file, now, raised>>

complete_task(task_id, actual_hours) ==
    LET matching == {i \in 1..Len(tasks) : tasks[i].id = task_id}
    IN  /\ raised = "none"
        /\ tasks' =
             IF matching = {} THEN tasks
             ELSE LET first == CHOOSE i \in matching : \A j \in matching : i <= j
                  IN  [tasks EXCEPT ![first] = completed(tasks[first], actual_hours)]
        /\ call' = [op |-> "complete_task", task_id |-> task_id,
                    actual_hours |-> actual_hours]
        /\ ret' = None
        /\ UNCHANGED <<current_energy, agent_vars, file, now, raised>>

\* Variant of log_productivity_session that keeps the energy within 1..10
log_productivity_session_clamped(start_time, focus_score, energy_level, distractions_count) ==
    /\ raised = "none"
    /\ log_session(ProductivitySession(start_time, focus_score, energy_level,
                                       distractions_count))
    /\ current_energy' = IF energy_level > 10 THEN 10
                         ELSE IF energy_level < 1 THEN 1 ELSE energy_level
    /\ call' = [op |-> "log_productivity_session", start_time |-> start_time,
                focus_score |-> focus_score, energy_level |-> energy_level,
                distractions_count |-> distractions_count]
    /\ ret' = None
    /\ UNCHANGED <<tasks, file, now, raised>>

log_productivity_session(start_time, focus_score, energy_level, distractions_count) ==
    /\ raised = "none"
    /\ log_session(ProductivitySession(start_time, focus_score, energy_level,
                                       distractions_count))
    /\ current_energy' = energy_level
    /\ call' = [op |-> "log_productivity_session", start_time |-> start_time,
                focus_score |-> focus_score, energy_level |-> energy_level,
                distractions_count |-> distractions_count]
    /\ ret' = None
    /\ UNCHANGED <<tasks, file, now, raised>>

\* datetime.datetime.now() does not go back
Tick(t) ==
    /\ raised = "none"
    /\ t > now
    /\ now' = t
    /\ UNCHANGED <<tasks, current_energy, agent_vars, file, call, ret, raised>>

(***************************************************************************)
(* The snapshot file.  A JSON value is <<"null">>, <<"num", n>> or         *)
(* <<"str", s>>; a datetime string is <<"str", datetime_isoformat>>.       *)
(***************************************************************************)
json_null == <<"null">>
json_num(n) == <<"num", n>>
json_str(s) == <<"str", s>>

\* json.dump(..., default=str): asdict leaves enum members and datetimes as
\* objects, and default=str turns each into str(object): "Priority.HIGH",
\* "TaskStatus.PENDING", "2026-01-02 10:00:00".
json_default_enum(class_name, member) == json_str(class_name \o "." \o member)
json_default_datetime(t) == json_str(datetime_isoformat(t, " "))

json_optional_datetime(d) == IF d = None THEN json_null ELSE json_default_datetime(d[1])

\* asdict(task) as json.dump writes it
json_task(task) ==
    [id |-> json_str(task.id),
     priority |-> json_default_enum("Priority", task.priority),
     deadline |-> json_optional_datetime(task.deadline),
     estimated_hours |-> json_num(task.estimated_hours),
     energy_level_required |-> json_num(task.energy_level_required),
     status |-> json_default_enum("TaskStatus", task.status),
     created_at |-> json_default_datetime(task.created_at),
     completed_at |-> json_optional_datetime(task.completed_at),
     actual_hours |-> IF task.actual_hours = None THEN json_null
                      ELSE json_num(task.actual_hours[1])]

\* The document _save_user_data writes; of its keys _load_user_data reads
\* "tasks" and "current_energy" only.
json_document ==
    [tasks |-> [i \in 1..Len(tasks) |-> json_task(tasks[i])],
     current_energy |-> json_num(current_energy)]

_save_user_data ==
    /\ raised = "none"
    /\ file' = Some(json_document)
    /\ call' = [op |-> "_save_user_data"]
    /\ ret' = None
    /\ UNCHANGED <<tasks, current_energy, agent_vars, now, raised>>

\* Priority(value): the member with that value, or None for ValueError
Priority_lookup(value) ==
    LET found == {p \in Priority : json_num(Priority_value(p)) = value}
    IN  IF found = {} THEN None ELSE Some(CHOOSE p \in found : TRUE)

\* TaskStatus(value): the member with that value, or None for ValueError
TaskStatus_lookup(value) ==
    LET found == {m \in TaskStatus : json_str(TaskStatus_value(m)) = value}
    IN  IF found = {} THEN None ELSE Some(CHOOSE m \in found : TRUE)

\* task_data.get(key) is falsy for null; otherwise fromisoformat
load_optional_datetime(v) ==
    IF v = json_null THEN None ELSE Some(datetime_fromisoformat(v[2]))

\* One pass of the loop of _load_user_data: the Task, or None when
\* Priority(...) or TaskStatus(...) raises ValueError
load_task(task_data) ==
    LET priority == Priority_lookup(task_data.priority)
        status == TaskStatus_lookup(task_data.status)
    IN  IF priority = None \/ status = None THEN None
        ELSE Some([id |-> task_data.id[2],
                   priority |-> priority[1],
                   deadline |-> load_optional_datetime(task_data.deadline),
                   estimated_hours |-> task_data.estimated_hours[2],
                   energy_level_required |-> task_data.energy_level_required[2],
                   status |-> status[1],
                   created_at |-> datetime_fromisoformat(task_data.created_at[2]),
                   completed_at |-> load_optional_datetime(task_data.completed_at),
                   actual_hours |-> IF task_data.actual_hours = json_null THEN None
                                    ELSE Some(task_data.actual_hours[2])])

\* The loop over data["tasks"]: the tasks appended before the loop ended,
\* and whether it ended by ValueError
RECURSIVE load_tasks(_, _)
load_tasks(task_datas, loaded) ==
    IF task_datas = <<>> THEN [tasks |-> loaded, raised |-> "none"]
    ELSE LET task == load_task(Head(task_datas))
         IN  IF task = None THEN [tasks |-> loaded, raised |-> "ValueError"]
             ELSE load_tasks(Tail(task_datas), Append(loaded, task[1]))

\* _load_user_data on the freshly built object.  A missing file is
\* FileNotFoundError, caught; a ValueError ends the loop and propagates,
\* before current_energy is read.
_load_user_data ==
    IF file = None
    THEN /\ tasks' = <<>>
         /\ current_energy' = 7
         /\ raised' = "none"
    ELSE LET data == file[1]
             loaded == load_tasks(data.tasks, <<>>)
         IN  /\ tasks' = loaded.tasks
             /\ raised' = loaded.raised
             /\ current_energy' = IF loaded.raised = "none"
                                  THEN data.current_energy[2] ELSE 7

\* ProductivityOptimizer(user_id) for the same user: fresh agents, an empty
\* task list and energy 7, then _load_user_data
ProductivityOptimizer__init__ ==
    /\ raised = "none"
    /\ productivity_history' = <<>>
    /\ focus_patterns' = <<>>
    /\ distraction_triggers' = <<>>
    /\ _load_user_data
    /\ call' = [op |-> "ProductivityOptimizer"]
    /\ ret' = None
    /\ UNCHANGED <<file, now>>

(***************************************************************************)
(* Calls of the agents' methods on their own: the arguments are in call,   *)
(* the value returned in ret (None until the call returns).                *)
(***************************************************************************)
calculate_task_score_call ==
    /\ call.op = "calculate_task_score"
    /\ ret = None
    /\ ret' = Some(calculate_task_score(call.task, call.current_energy,
                                        call.current_time))
    /\ UNCHANGED <<tasks, current_energy, agent_vars, file, now, call, raised>>

prioritize_tasks_call ==
    /\ call.op = "prioritize_tasks"
    /\ ret = None
    /\ ret' = Some(prioritize_tasks(call.tasks, call.current_energy,
                                    call.current_time))
    /\ UNCHANGED <<tasks, current_energy, agent_vars, file, now, call, raised>>

log_session_call(session) ==
    /\ log_session(session)
    /\ call' = [op |-> "log_session", session |-> session]
    /\ ret' = None
    /\ UNCHANGED <<tasks, current_energy, file, now, raised>>

get_optimal_focus_time_call ==
    /\ call' = [op |-> "get_optimal_focus_time"]
    /\ ret' = Some(get_optimal_focus_time(focus_patterns))
    /\ UNCHANGED <<tasks, current_energy, agent_vars, file, now, raised>>

suggest_break_time_call(current_time) ==
    /\ call' = [op |-> "suggest_break_time", current_time |-> current_time]
    /\ ret' = Some(suggest_break_time(distraction_triggers, current_time))
    /\ UNCHANGED <<tasks, current_energy, agent_vars, file, now, raised>>

(***************************************************************************)
(* Spec: one optimizer, built with no snapshot file, and its caller.       *)
(***************************************************************************)
MaxTasks == 2
MaxSessions == 2

Times == {10, 20}

TaskInputs ==
    {[priority |-> "HIGH", deadline |-> Some(34), estimated_hours |-> 4,
      energy_level_required |-> 8],
     [priority |-> "LOW", deadline |-> None, estimated_hours |-> 1,
      energy_level_required |-> 5]}

TaskIdInputs == {"task_1", "task_2", "task_9"}

ActualHoursInputs == {None, Some(0), Some(3)}

SessionInputs ==
    {ProductivitySession(9, 8, 3, 5), ProductivitySession(14, 6, 12, 2)}

Init ==
    /\ init_fields
    /\ file = None
    /\ now \in Times
    /\ call = [op |-> "ProductivityOptimizer"]
    /\ ret = None
    /\ raised = "none"

AddTask ==
    \E i \in TaskInputs :
        /\ Len(tasks) < MaxTasks
        /\ add_task(i.priority, i.deadline, i.estimated_hours,
                    i.energy_level_required)

CompleteTask ==
    \E task_id \in TaskIdInputs, actual_hours \in ActualHoursInputs :
        complete_task(task_id, actual_hours)

LogProductivitySession ==
    \E s \in SessionInputs :
        /\ Len(productivity_history) < MaxSessions
        /\ log_productivity_session(s.start_time, s.focus_score, s.energy_level,
                                    s.distractions_count)

Clock == \E t \in Times : Tick(t)

Next ==
    \/ AddTask
    \/ CompleteTask
    \/ LogProductivitySession
    \/ get_daily_recommendations
    \/ get_optimal_focus_time_call
    \/ Clock

Spec == Init /\ [][Next]_vars

(***************************************************************************)
(* SpecPersist: the optimizer with _save_user_data and a later             *)
(* ProductivityOptimizer(user_id) for the same user.                       *)
(***************************************************************************)
MaxSavedTasks == 2

PersistTaskInputs ==
    {[priority |-> "HIGH", deadline |-> Some(34), estimated_hours |-> 4,
      energy_level_required |-> 8],
     [priority |-> "MEDIUM", deadline |-> None, estimated_hours |-> 1,
      energy_level_required |-> 5]}

PersistAddTask ==
    \E i \in PersistTaskInputs :
        /\ Len(tasks) < MaxSavedTasks
        /\ add_task(i.priority, i.deadline, i.estimated_hours,
                    i.energy_level_required)

PersistCompleteTask ==
    \E task_id \in {"task_1", "task_2"}, actual_hours \in {None, Some(3)} :
        complete_task(task_id, actual_hours)

PersistLogSession ==
    /\ productivity_history = <<>>
    /\ log_productivity_session(14, 6, 3, 2)

NextPersist ==
    \/ PersistAddTask
    \/ PersistCompleteTask
    \/ PersistLogSession
    \/ _save_user_data
    \/ ProductivityOptimizer__init__
    \/ Clock

SpecPersist == Init /\ [][NextPersist]_vars

(***************************************************************************)
(* SpecScore: calculate_task_score on one task, energy and time.           *)
(***************************************************************************)
ScoreTimes == {8, 9, 10, 17, 18}

\* Deadlines as offsets from current_time, in hours
DeadlineOffsets == {-25, -24, -1, 0, 23, 24, 47, 48, 95, 96, 191, 192}

ScoreEstimatedHours == 1..5

ScoreEnergyRequired == {1, 5, 8, 10}

ScoreEnergies == {-3, 1, 7, 10}

ScoreDeadlines(current_time) ==
    {None} \cup {Some(current_time + d) : d \in DeadlineOffsets}

InitScore ==
    /\ init_fields
    /\ file = None
    /\ now = 0
    /\ ret = None
    /\ raised = "none"
    /\ \E current_time \in ScoreTimes, energy \in ScoreEnergies,
          priority \in Priority, estimated_hours \in ScoreEstimatedHours,
          energy_level_required \in ScoreEnergyRequired :
         \E deadline \in ScoreDeadlines(current_time) :
            call = [op |-> "calculate_task_score",
                    task |-> Task("task_1", priority, deadline, estimated_hours,
                                  energy_level_required, 0),
                    current_energy |-> energy,
                    current_time |-> current_time]

NextScore == calculate_task_score_call

SpecScore == InitScore /\ [][NextScore]_vars

(***************************************************************************)
(* SpecRank: prioritize_tasks on a task list, energy and time.             *)
(***************************************************************************)
MaxRankLen == 3

\* priority, deadline, estimated_hours, energy_level_required, status.
\* At energy 7 in work hours the first two score the same.
RankShapes ==
    {<<"URGENT", None, 1, 7, "PENDING">>,
     <<"HIGH", Some(500), 1, 7, "PENDING">>,
     <<"LOW", None, 5, 2, "PENDING">>,
     <<"HIGH", Some(0), 3, 7, "PENDING">>,
     <<"URGENT", None, 1, 7, "COMPLETED">>,
     <<"HIGH", Some(0), 3, 7, "IN_PROGRESS">>,
     <<"LOW", None, 5, 2, "CANCELLED">>}

\* The i-th task of a list, of the given shape
RankTask(i, shape) ==
    [Task("task_" \o ToString(i), shape[1], shape[2], shape[3], shape[4], 0)
       EXCEPT !.status = shape[5],
              !.completed_at = IF shape[5] = "COMPLETED" THEN Some(0) ELSE None]

RankLists ==
    UNION {{[i \in 1..n |-> RankTask(i, shapes[i])] : shapes \in [1..n -> RankShapes]}
             : n \in 0..MaxRankLen}

InitRank ==
    /\ init_fields
    /\ file = None
    /\ now = 0
    /\ ret = None
    /\ raised = "none"
    /\ \E task_list \in RankLists, energy \in {2, 7}, current_time \in {10, 20} :
         call = [op |-> "prioritize_tasks", tasks |-> task_list,
                 current_energy |-> energy, current_time |-> current_time]

NextRank == prioritize_tasks_call

SpecRank == InitRank /\ [][NextRank]_vars

(***************************************************************************)
(* SpecBreak: a FocusDistractionsAgent whose caller logs sessions in any   *)
(* order and asks suggest_break_time.                                      *)
(***************************************************************************)
MaxBreakSessions == 5

\* Hour 14 of day 0 and of day 1, and hour 13
BreakSessionInputs ==
    {ProductivitySession(14, 5, 5, 4), ProductivitySession(14, 5, 5, 3),
     ProductivitySession(38, 5, 5, 5), ProductivitySession(13, 5, 5, 4)}

BreakTimes == {13, 14, 62}

BreakLogSession ==
    \E s \in BreakSessionInputs :
        /\ Len(productivity_history) < MaxBreakSessions
        /\ log_session_call(s)

BreakSuggest == \E t \in BreakTimes : suggest_break_time_call(t)

NextBreak == BreakLogSession \/ BreakSuggest

InitAgent == Init /\ now = 10

SpecBreak == InitAgent /\ [][NextBreak]_vars

(***************************************************************************)
(* SpecFocus: a FocusDistractionsAgent whose caller logs the sessions of   *)
(* one day in the order of their start and asks get_optimal_focus_time.    *)
(***************************************************************************)
MaxFocusSessions == 7

\* start hour, focus score; log_session checks no range
FocusInputs ==
    {<<7, -5>>, <<9, -5>>, <<11, -5>>, <<13, -5>>, <<15, -5>>, <<17, -5>>,
     <<19, -5>>, <<9, 8>>, <<14, 10>>, <<20, 10>>}

FocusLogSession ==
    \E i \in FocusInputs :
        /\ Len(productivity_history) < MaxFocusSessions
        /\ IF productivity_history = <<>> THEN TRUE
           ELSE productivity_history[Len(productivity_history)].start_time <= i[1]
        /\ log_session_call(ProductivitySession(i[1], i[2], 5, 0))

NextFocus == FocusLogSession \/ get_optimal_focus_time_call

SpecFocus == InitAgent /\ [][NextFocus]_vars

(***************************************************************************)
(* Claims                                                                  *)
(***************************************************************************)
\* Position of a task in a list of tasks with distinct ids
PositionIn(task_list, task) == CHOOSE i \in 1..Len(task_list) : task_list[i] = task

\* C1: prioritize_tasks returns exactly the PENDING tasks of its input, each
\* once, by calculate_task_score descending, and two PENDING tasks of equal
\* score keep the relative order they have in the input.
C1_StableRanking ==
    (call.op = "prioritize_tasks" /\ ret # None) =>
        LET input == call.tasks
            out == ret[1]
            score(t) == calculate_task_score(t, call.current_energy,
                                             call.current_time)
        IN  /\ Len(out) =
                 Cardinality({i \in 1..Len(input) : input[i].status = "PENDING"})
            /\ \A i \in 1..Len(input) :
                 Cardinality({j \in 1..Len(out) : out[j] = input[i]}) =
                   IF input[i].status = "PENDING" THEN 1 ELSE 0
            /\ \A j \in 1..Len(out) : \E i \in 1..Len(input) : input[i] = out[j]
            /\ \A j, k \in 1..Len(out) :
                 j < k =>
                   \/ score(out[j]) > score(out[k])
                   \/ /\ score(out[j]) = score(out[k])
                      /\ PositionIn(input, out[j]) < PositionIn(input, out[k])

\* A ranking of three tasks, one of them not PENDING, whose two PENDING
\* tasks differ in priority and score the same
C1_Witness ==
    /\ call.op = "prioritize_tasks"
    /\ ret # None
    /\ Len(call.tasks) = 3
    /\ Len(ret[1]) = 2
    /\ ret[1][1].priority # ret[1][2].priority
    /\ calculate_task_score(ret[1][1], call.current_energy, call.current_time)
         = calculate_task_score(ret[1][2], call.current_energy, call.current_time)

\* Whole days from current_time to deadline, as the d with
\* 24 d <= deadline - current_time < 24 (d + 1)
WholeDays(deadline, current_time) ==
    CHOOSE d \in -16..16 :
        /\ 24 * d <= deadline - current_time
        /\ deadline - current_time < 24 * (d + 1)

\* The four bands of the score as the claim tabulates them
BandSum(task, energy, current_time) ==
    LET deadline_band ==
            IF task.deadline = None THEN 0
            ELSE LET d == WholeDays(task.deadline[1], current_time)
                 IN  CASE d <= 0 -> 40
                       [] d = 1 -> 35
                       [] d \in 2..3 -> 25
                       [] d \in 4..7 -> 15
                       [] OTHER -> 5
        priority_band ==
            [LOW |-> 5, MEDIUM |-> 10, HIGH |-> 20, URGENT |-> 25][task.priority]
        distance == Abs(energy - task.energy_level_required)
        energy_band == IF 2 * distance >= 20 THEN 0 ELSE 20 - 2 * distance
        effort_band ==
            IF current_time % 24 \in 9..17
            THEN CASE task.estimated_hours <= 2 -> 15
                   [] task.estimated_hours \in 3..4 -> 10
                   [] OTHER -> 5
            ELSE 0
    IN  deadline_band + priority_band + energy_band + effort_band

\* The example: deadline a day after current_time, HIGH, required energy 8,
\* 4 estimated hours, at hour 10 with energy 7
IsScoreExample ==
    /\ call.op = "calculate_task_score"
    /\ call.task.deadline = Some(call.current_time + 24)
    /\ call.task.priority = "HIGH"
    /\ call.task.energy_level_required = 8
    /\ call.task.estimated_hours = 4
    /\ call.current_time % 24 = 10
    /\ call.current_energy = 7

\* C4: calculate_task_score is the sum of the deadline, priority, energy
\* and effort bands; the example scores 83; every score is within 5..100.
C4_ScoreIsBandSum ==
    (call.op = "calculate_task_score" /\ ret # None) =>
        /\ ret[1] = BandSum(call.task, call.current_energy, call.current_time)
        /\ ret[1] \in 5..100
        /\ IsScoreExample => ret[1] = 83

\* The example has been scored
C4_Witness == IsScoreExample /\ ret = Some(83)

\* C5: of two tasks that differ only in their deadline, scored with the
\* same energy at the same time, the one with fewer whole days remaining
\* never scores lower.
C5_DeadlineMonotone ==
    (call.op = "calculate_task_score" /\ ret # None /\ call.task.deadline # None) =>
        \A offset \in DeadlineOffsets :
            LET other == [call.task EXCEPT
                            !.deadline = Some(call.current_time + offset)]
                other_score == calculate_task_score(other, call.current_energy,
                                                    call.current_time)
                days == WholeDays(call.task.deadline[1], call.current_time)
                other_days == WholeDays(other.deadline[1], call.current_time)
            IN  /\ days <= other_days => ret[1] >= other_score
                /\ days >= other_days => ret[1] <= other_score

\* An overdue task has been scored, and scores strictly more than the same
\* task due in more than a week
C5_Witness ==
    /\ call.op = "calculate_task_score"
    /\ ret # None
    /\ call.task.deadline = Some(call.current_time - 25)
    /\ ret[1] > calculate_task_score(
                  [call.task EXCEPT !.deadline = Some(call.current_time + 192)],
                  call.current_energy, call.current_time)

\* The sessions logged so far that started in the hour of current_time
\* with more than 3 distractions
DistractedSessionsAt(current_time) ==
    {i \in 1..Len(productivity_history) :
        /\ productivity_history[i].start_time % 24 = current_time % 24
        /\ productivity_history[i].distractions_count > 3}

\* C3: after any sequence of log_session calls, suggest_break_time(now) is
\* true exactly when at least 4 of the sessions logged so far started in
\* now's hour with more than 3 distractions.
C3_BreakIffFourDistracted ==
    (call.op = "suggest_break_time") =>
        ret = Some(Cardinality(DistractedSessionsAt(call.current_time)) >= 4)

\* A break is suggested after exactly four distracted sessions at that
\* hour and a session at another hour
C3_Witness ==
    /\ call.op = "suggest_break_time"
    /\ ret = Some(TRUE)
    /\ Cardinality(DistractedSessionsAt(call.current_time)) = 4
    /\ Len(productivity_history) = 5

\* Sum and number of the focus scores logged at start hour h
RECURSIVE LoggedSum(_, _)
LoggedSum(history, h) ==
    IF history = <<>> THEN 0
    ELSE (IF Head(history).start_time % 24 = h THEN Head(history).focus_score ELSE 0)
           + LoggedSum(Tail(history), h)

LoggedCount(history, h) ==
    Cardinality({i \in 1..Len(history) : history[i].start_time % 24 = h})

\* avg(s) + avg(s + 1) as a fraction <<numerator, denominator>>: avg(h) is
\* the mean of the scores logged at hour h, and 5 when there is none.  The
\* window score is half of it, so windows compare as these sums do.
WindowSum(s) ==
    LET n1 == LoggedCount(productivity_history, s)
        n2 == LoggedCount(productivity_history, s + 1)
        a == IF n1 = 0 THEN <<5, 1>> ELSE <<LoggedSum(productivity_history, s), n1>>
        b == IF n2 = 0 THEN <<5, 1>>
             ELSE <<LoggedSum(productivity_history, s + 1), n2>>
    IN  <<a[1] * b[2] + b[1] * a[2], a[2] * b[2]>>

FracLess(x, y) == x[1] * y[2] < y[1] * x[2]

\* The smallest start hour in 6..19 whose window score is the maximum
FirstBestStart ==
    CHOOSE s \in 6..19 :
        /\ \A t \in 6..19 : ~FracLess(WindowSum(s), WindowSum(t))
        /\ \A t \in 6..19 : t < s => FracLess(WindowSum(t), WindowSum(s))

\* C6 as stated: with at least one session logged, get_optimal_focus_time
\* returns (s, s + 2) for the smallest start hour s in 6..19 that maximizes
\* the window score, for every sequence of logged sessions.
C6_AsStated ==
    (call.op = "get_optimal_focus_time" /\ productivity_history # <<>>) =>
        ret = Some(<<FirstBestStart, FirstBestStart + 2>>)

\* C6: with at least one session logged, get_optimal_focus_time returns
\* (s, s + 2) for the smallest start hour s in 6..19 that maximizes the
\* window score when that maximum is above 0, and (9, 11) when no window
\* scores above 0.
C6_FirstBestWindowAboveZero ==
    (call.op = "get_optimal_focus_time" /\ productivity_history # <<>>) =>
        ret = Some(IF WindowSum(FirstBestStart)[1] > 0
                   THEN <<FirstBestStart, FirstBestStart + 2>>
                   ELSE <<9, 11>>)

\* The window returned is neither the default nor the first one scanned,
\* after sessions of which two started in the same hour
C6_Witness ==
    /\ call.op = "get_optimal_focus_time"
    /\ ret = Some(<<14, 16>>)
    /\ LoggedCount(productivity_history, 13) = 1
    /\ LoggedCount(productivity_history, 9) = 2

\* C7: with no session logged, get_optimal_focus_time returns exactly
\* (9, 11), whatever tasks have been added or completed before the call.
C7_DefaultWindow ==
    productivity_history = <<>> =>
        /\ call.op = "get_optimal_focus_time" => ret = Some(<<9, 11>>)
        /\ call.op = "get_daily_recommendations" =>
             ret[1].focus_recommendations.optimal_focus_time = "9:00 - 11:00"

\* The window has been asked for with no session logged, after two tasks
\* were added and one of them completed
C7_Witness ==
    /\ call.op = "get_optimal_focus_time"
    /\ productivity_history = <<>>
    /\ Len(tasks) = 2
    /\ \E i \in 1..Len(tasks) : tasks[i].status = "COMPLETED"

\* The indices of the tasks with the given id
Matching(task_id) == {i \in 1..Len(tasks) : tasks[i].id = task_id}

\* C8 as stated: complete_task with an id in the list changes only the
\* first task with that id: its status becomes COMPLETED, its completed_at
\* the current time, and its actual_hours the value given whenever one is
\* given; the other tasks, the order and the length stay.
C8_AsStated ==
    [][\A task_id \in TaskIdInputs, actual_hours \in ActualHoursInputs :
          (complete_task(task_id, actual_hours) /\ Matching(task_id) # {}) =>
              LET first == CHOOSE i \in Matching(task_id) :
                               \A j \in Matching(task_id) : i <= j
              IN  tasks' = [tasks EXCEPT ![first] =
                              [@ EXCEPT !.status = "COMPLETED",
                                        !.completed_at = Some(now),
                                        !.actual_hours =
                                          IF actual_hours # None
                                          THEN actual_hours ELSE @]]]_vars

\* C9: complete_task with an id that matches no task raises nothing and
\* leaves the task list, current_energy and the focus and distraction
\* history as they were.
C9_UnknownIdNoOp ==
    [][\A task_id \in TaskIdInputs, actual_hours \in ActualHoursInputs :
          (complete_task(task_id, actual_hours) /\ Matching(task_id) = {}) =>
              /\ tasks' = tasks
              /\ current_energy' = current_energy
              /\ UNCHANGED agent_vars
              /\ raised' = "none"]_vars

\* complete_task has returned from a call with an id that no task of a
\* list of two has, one of them PENDING
C9_Witness ==
    /\ call.op = "complete_task"
    /\ Matching(call.task_id) = {}
    /\ Len(tasks) = 2
    /\ \E i \in 1..Len(tasks) : tasks[i].status = "PENDING"
    /\ raised = "none"

\* C10: in every state reached by add_task, complete_task,
\* log_productivity_session and get_daily_recommendations, a task has
\* completed_at set exactly when its status is COMPLETED.
C10_CompletedAtIffCompleted ==
    \A i \in 1..Len(tasks) :
        (tasks[i].completed_at # None) <=> (tasks[i].status = "COMPLETED")

\* A list with a COMPLETED task, carrying its completion time, and a
\* PENDING one
C10_Witness ==
    /\ \E i \in 1..Len(tasks) :
         tasks[i].status = "COMPLETED" /\ tasks[i].completed_at = Some(now)
    /\ \E i \in 1..Len(tasks) :
         tasks[i].status = "PENDING" /\ tasks[i].completed_at = None

\* C2 as stated: _save_user_data followed by ProductivityOptimizer(user_id)
\* for the same user reproduces the task list: the constructor returns and
\* the new list has the same tasks in the same order.
C2_AsStated ==
    [][(ProductivityOptimizer__init__ /\ file = Some(json_document)) =>
          (raised' = "none" /\ tasks' = tasks)]_vars


(***************************************************************************)
(* The optimizer with a store long enough for the top-5 cut of             *)
(* get_daily_recommendations: two tasks that differ in the energy they     *)
(* require only, so that the logged energy decides their order, and        *)
(* sessions at the hour of the clock.                                      *)
(***************************************************************************)
MaxDailyTasks == 7
MaxDailySessions == 4

DailyTaskInputs ==
    {[priority |-> "MEDIUM", deadline |-> None, estimated_hours |-> 1,
      energy_level_required |-> 3],
     [priority |-> "MEDIUM", deadline |-> None, estimated_hours |-> 1,
      energy_level_required |-> 9]}

DailySessionInputs ==
    {ProductivitySession(10, 8, 3, 5), ProductivitySession(14, 6, 12, 2)}

DailyAddTask ==
    \E i \in DailyTaskInputs :
        /\ Len(tasks) < MaxDailyTasks
        /\ add_task(i.priority, i.deadline, i.estimated_hours,
                    i.energy_level_required)

DailyCompleteTask == complete_task("task_1", None)

DailyLogSession ==
    \E s \in DailySessionInputs :
        /\ Len(productivity_history) < MaxDailySessions
        /\ log_productivity_session(s.start_time, s.focus_score,
                                    s.energy_level, s.distractions_count)

NextDaily ==
    \/ DailyAddTask
    \/ DailyCompleteTask
    \/ DailyLogSession
    \/ get_daily_recommendations

SpecDaily == InitAgent /\ [][NextDaily]_vars

\* C11: once a task's status is COMPLETED or CANCELLED, no operation
\* (in particular complete_task on its id) changes its status or its
\* completed_at.
C11_AsStated ==
    [][\A i \in 1..Len(tasks) :
          tasks[i].status \in {"COMPLETED", "CANCELLED"} =>
              /\ tasks'[i].status = tasks[i].status
              /\ tasks'[i].completed_at = tasks[i].completed_at]_vars

\* C12: add_task appends one PENDING task with id "task_" + (number of
\* tasks before + 1) and leaves the others as they were; so the k-th task
\* has id task_k, the ids are pairwise distinct, and no id ever changes.
C12_SequentialIds ==
    [][/\ \A k \in 1..Len(tasks') : tasks'[k].id = "task_" \o ToString(k)
       /\ \A j, k \in 1..Len(tasks') : j # k => tasks'[j].id # tasks'[k].id
       /\ \A k \in 1..Len(tasks) : tasks'[k].id = tasks[k].id
       /\ \A i \in TaskInputs :
            add_task(i.priority, i.deadline, i.estimated_hours,
                     i.energy_level_required) =>
                /\ Len(tasks') = Len(tasks) + 1
                /\ SubSeq(tasks', 1, Len(tasks)) = tasks
                /\ tasks'[Len(tasks')].status = "PENDING"
                /\ tasks'[Len(tasks')].id = "task_" \o ToString(Len(tasks) + 1)]_vars

\* add_task has returned the second task, after the first was completed
C12_Witness ==
    /\ call.op = "add_task"
    /\ Len(tasks) = 2
    /\ tasks[1].status = "COMPLETED"
    /\ tasks[1].id = "task_1"
    /\ tasks[2].id = "task_2"
    /\ ret = Some(tasks[2])


PendingCount == Cardinality({i \in 1..Len(tasks) : tasks[i].status = "PENDING"})

FirstThreeTips ==
    SubSeq(get_distraction_mitigation_tips(distraction_triggers,
                                           productivity_history), 1, 3)

WindowText(window) ==
    ToString(window[1]) \o ":00 - " \o ToString(window[2]) \o ":00"

\* C13: get_daily_recommendations returns as prioritized_tasks the first
\* min(5, n) elements of prioritize_tasks over the whole store, n the number
\* of PENDING tasks: never a task that is not PENDING, never more than 5;
\* its distraction_tips are the first 3 tips of
\* get_distraction_mitigation_tips, and should_take_break and
\* optimal_focus_time are what suggest_break_time and get_optimal_focus_time
\* (written "a:00 - b:00") return in the same state.
C13_DailyRecommendations ==
    [][get_daily_recommendations =>
          LET ranked == prioritize_tasks(tasks, current_energy, now)
              n == PendingCount
              result == ret'[1]
              focus == result.focus_recommendations
          IN  /\ Len(ranked) = n
              /\ result.prioritized_tasks =
                   SubSeq(ranked, 1, IF n < 5 THEN n ELSE 5)
              /\ Len(result.prioritized_tasks) <= 5
              /\ \A j \in 1..Len(result.prioritized_tasks) :
                   result.prioritized_tasks[j].status = "PENDING"
              /\ focus.distraction_tips = FirstThreeTips
              /\ Len(focus.distraction_tips) = 3
              /\ focus.should_take_break =
                   suggest_break_time(distraction_triggers, now)
              /\ focus.optimal_focus_time =
                   WindowText(get_optimal_focus_time(focus_patterns))]_vars

\* get_daily_recommendations has returned 5 of 6 PENDING tasks from a store
\* whose first task is COMPLETED, with a break suggested and a sixth tip
\* left out
C13_Witness ==
    /\ call.op = "get_daily_recommendations"
    /\ PendingCount = 6
    /\ tasks[1].status = "COMPLETED"
    /\ Len(ret[1].prioritized_tasks) = 5
    /\ ret[1].focus_recommendations.should_take_break
    /\ Len(get_distraction_mitigation_tips(distraction_triggers,
                                           productivity_history)) = 6

LastLoggedEnergy(history) ==
    IF history = <<>> THEN 7 ELSE history[Len(history)].energy_level

====
